---- MODULE Spec2Model ----
(***************************************************************************)
(* A model of the foodgram backend (src/backend): the relation tables      *)
(* Favorite, ShoppingCart and UserSubscriptions with the views that add    *)
(* and remove their rows, the per-viewer flags of a serialized recipe and  *)
(* the shopping list built from a user's cart.                             *)
(*                                                                         *)
(* Every HTTP request (or direct model call) is one entry of `req`; it is  *)
(* served once, query by query: each action is one database query of the   *)
(* handler together with the Python code around it, so that requests       *)
(* interleave exactly where two database connections can interleave.       *)
(***************************************************************************)
EXTENDS Integers, Sequences, FiniteSets

\* Bounds of the model.
NumUsers == 2
NumRecipes == 2
NumRequests == 2
MaxAmount == 2
NumTags == 2
NumTokens == 2
NumRawIds == 1
MaxLines == 2

Anonymous == 0                       \* request.user of an unauthenticated request
UserIds == 1..NumUsers               \* primary keys of the User rows
RecipeIds == 1..NumRecipes           \* primary keys of the Recipe rows
UserPks == 1..(NumUsers + 1)         \* ids a URL can name: the last one has no row
RecipePks == 1..(NumRecipes + 1)     \* pks a URL can name: the last one has no row
Requests == 1..NumRequests
TagIds == 1..NumTags

VARIABLES
    favorite,           \* Favorite rows: <<user, recipe>> -> number of rows
    shopping_cart,      \* ShoppingCart rows: <<user, recipe>> -> number of rows
    subscriptions,      \* UserSubscriptions rows: <<subscriber, subscribed_to>> -> number of rows
    ingredient_recipe,  \* IngredientRecipe rows: set of [recipe, ingredient, amount]
    user_rows,          \* User rows: the set of pks
    recipe_rows,        \* Recipe rows: pk -> [author, name]
    tag_recipe,         \* TagRecipe rows: set of [recipe, tag]
    recipe_short_links, \* RecipeShortLinks rows: set of [id, recipe, short_link]
    req                 \* the requests: [op, user, target, pc, status, body]

vars == <<favorite, shopping_cart, subscriptions, ingredient_recipe, user_rows, recipe_rows,
          tag_recipe, recipe_short_links, req>>

\* The Ingredient table (read-only through the API: IngredientsViewset): name and
\* measurement unit; names are numbered in alphabetical order, so ORDER BY name is
\* the order of the numbers (1 "Flour", 2 "Salt", 3 "Sugar"; unit 1 "g", 2 "kg").
Ingredient ==
    <<[name |-> 2, measurement_unit |-> 1],
      [name |-> 1, measurement_unit |-> 2],
      [name |-> 3, measurement_unit |-> 1],
      [name |-> 2, measurement_unit |-> 2]>>

IngredientIds == DOMAIN Ingredient

NoBody == [empty |-> TRUE]

NewRequest == [op |-> "none", user |-> Anonymous, target |-> 0, pc |-> "new",
               status |-> "none", body |-> NoBody]

EmptyTable(Left, Right) == [p \in Left \X Right |-> 0]

\* Requests are numbered in the order they arrive.
Arrives(i) ==
    /\ req[i].pc = "new"
    /\ \A j \in Requests : j < i => req[j].pc # "new"

Start(i, op, user, target, pc) ==
    req' = [req EXCEPT ![i] = [op |-> op, user |-> user, target |-> target,
                               pc |-> pc, status |-> "none", body |-> NoBody]]

Respond(i, op, user, target, status) ==
    req' = [req EXCEPT ![i] = [op |-> op, user |-> user, target |-> target,
                               pc |-> "done", status |-> status, body |-> NoBody]]

Goto(i, pc) == req' = [req EXCEPT ![i].pc = pc]

Finish(i, status) == req' = [req EXCEPT ![i].pc = "done", ![i].status = status]

\* permission_classes=(IsAuthenticated,)
IsAuthenticated(user) == user # Anonymous

\* ------------------------------------------------------------------------
\* Storage constraints.

\* Meta.constraints of ShoppingCart: an INSERT of (user, recipe) is accepted.
unique_user_recipe_in_shopping_cart(user, recipe) ==
    shopping_cart[<<user, recipe>>] = 0

\* A Favorite table without its unique constraint: every INSERT is accepted.
favorite_without_constraint(user, recipe) == TRUE

\* Meta.constraints of Favorite: an INSERT of (user, recipe) is accepted.
unique_user_recipe_in_favorite(user, recipe) ==
    favorite[<<user, recipe>>] = 0

\* Meta.constraints of UserSubscriptions: an INSERT of the pair is accepted.
unique_user_subscription(subscriber, subscribed_to) ==
    subscriptions[<<subscriber, subscribed_to>>] = 0

\* ForeignKey(User, on_delete=models.CASCADE): the database accepts a row only
\* when the user it references exists.
fk_user(user) == user \in user_rows

\* ForeignKey(Recipe, on_delete=models.CASCADE), likewise for the recipe.
fk_recipe(recipe) == recipe \in DOMAIN recipe_rows

\* ------------------------------------------------------------------------
\* Favorite and ShoppingCart: POST and DELETE of RecipeViewset.

Table(op) == IF op = "favorites" THEN favorite ELSE shopping_cart

SetTable(op, new) ==
    /\ favorite' = IF op = "favorites" THEN new ELSE favorite
    /\ shopping_cart' = IF op = "favorites" THEN shopping_cart ELSE new

InsertAccepted(op, user, recipe) ==
    /\ fk_user(user)
    /\ fk_recipe(recipe)
    /\ IF op = "favorites" THEN unique_user_recipe_in_favorite(user, recipe)
       ELSE unique_user_recipe_in_shopping_cart(user, recipe)

\* QuerySet.get: the outcome of looking the pair up.
Get(table, pair) ==
    IF table[pair] = 0 THEN "DoesNotExist"
    ELSE IF table[pair] = 1 THEN "found"
    ELSE "MultipleObjectsReturned"

\* get_or_create, first query: get(user=..., recipe=...); DoesNotExist leads to
\* the INSERT, a found row to created = False.
get_or_create_get(i, op, user, pk) ==
    LET found == Get(Table(op), <<user, pk>>) IN
    /\ IF found = "DoesNotExist" THEN Start(i, op, user, pk, "create")
       ELSE IF found = "found" THEN Respond(i, op, user, pk, "already_exists")
       ELSE Respond(i, op, user, pk, "MultipleObjectsReturned")
    /\ UNCHANGED <<favorite, shopping_cart>>

\* A check-then-insert that lets the IntegrityError of the INSERT escape.
check_then_insert(i) ==
    LET op == req[i].op
        pair == <<req[i].user, req[i].target>> IN
    IF InsertAccepted(op, pair[1], pair[2])
    THEN /\ SetTable(op, [Table(op) EXCEPT ![pair] = @ + 1])
         /\ Finish(i, "created")
    ELSE /\ Finish(i, "IntegrityError")
         /\ UNCHANGED <<favorite, shopping_cart>>

\* get_or_create, second query: the INSERT; an IntegrityError leads to a second get.
get_or_create_create(i) ==
    LET op == req[i].op
        pair == <<req[i].user, req[i].target>> IN
    IF InsertAccepted(op, pair[1], pair[2])
    THEN /\ SetTable(op, [Table(op) EXCEPT ![pair] = @ + 1])
         /\ Finish(i, "created")
    ELSE /\ Goto(i, "reget")
         /\ UNCHANGED <<favorite, shopping_cart>>

\* get_or_create, third query: get again; when the row is gone by now the
\* IntegrityError of the INSERT is raised to the caller.
get_or_create_reget(i) ==
    LET found == Get(Table(req[i].op), <<req[i].user, req[i].target>>) IN
    /\ IF found = "found" THEN Finish(i, "already_exists")
       ELSE IF found = "DoesNotExist" THEN Finish(i, "IntegrityError")
       ELSE Finish(i, "MultipleObjectsReturned")
    /\ UNCHANGED <<favorite, shopping_cart>>

\* RecipeViewset.favorites (POST recipes/<pk>/favorite/): the permission check,
\* get_object_or_404(Recipe, pk=pk) and the first query of get_or_create.
favorites(i, user, pk) ==
    /\ Arrives(i)
    /\ IF ~IsAuthenticated(user)
       THEN Respond(i, "favorites", user, pk, "unauthorized")
            /\ UNCHANGED <<favorite, shopping_cart>>
       ELSE IF pk \notin DOMAIN recipe_rows
       THEN Respond(i, "favorites", user, pk, "Http404")
            /\ UNCHANGED <<favorite, shopping_cart>>
       ELSE get_or_create_get(i, "favorites", user, pk)
    /\ UNCHANGED <<user_rows, subscriptions, ingredient_recipe,
                   recipe_rows, tag_recipe, recipe_short_links>>

\* RecipeViewset.shopping_cart (POST recipes/<pk>/shopping_cart/), likewise.
shopping_cart_post(i, user, pk) ==
    /\ Arrives(i)
    /\ IF ~IsAuthenticated(user)
       THEN Respond(i, "shopping_cart", user, pk, "unauthorized")
            /\ UNCHANGED <<favorite, shopping_cart>>
       ELSE IF pk \notin DOMAIN recipe_rows
       THEN Respond(i, "shopping_cart", user, pk, "Http404")
            /\ UNCHANGED <<favorite, shopping_cart>>
       ELSE get_or_create_get(i, "shopping_cart", user, pk)
    /\ UNCHANGED <<user_rows, subscriptions, ingredient_recipe,
                   recipe_rows, tag_recipe, recipe_short_links>>

\* The later queries of get_or_create of either view.
get_or_create_step(i) ==
    /\ req[i].op \in {"favorites", "shopping_cart"}
    /\ \/ req[i].pc = "create" /\ get_or_create_create(i)
       \/ req[i].pc = "reget" /\ get_or_create_reget(i)
    /\ UNCHANGED <<user_rows, subscriptions, ingredient_recipe,
                   recipe_rows, tag_recipe, recipe_short_links>>

\* A queryset delete that removes nothing.
no_delete(table, left, right) == table

\* A queryset delete filtered by the user alone.
delete_all_of_user(table, left, right) ==
    [p \in DOMAIN table |-> IF p[1] = left THEN 0 ELSE table[p]]

\* queryset.filter(<left>, <right>).delete(): the table without the rows of the
\* pair; the rows it removed are counted by the caller as deleted_rows.
filter_delete(table, left, right) ==
    [table EXCEPT ![<<left, right>>] = 0]

\* A remove view that answers every request with 204.
always_deleted(deleted_rows) == "deleted"

\* `if not deleted_rows:` 400 with a "you don't have this ..." detail, else 204.
DeleteResponse(deleted_rows) ==
    IF deleted_rows = 0 THEN "not_found" ELSE "deleted"

\* RecipeViewset.delete_favorite (DELETE recipes/<pk>/favorite/):
\* user.favorites.filter(recipe=recipe).delete() and the response chosen from
\* the number of deleted rows.
delete_favorite(i, user, pk) ==
    /\ Arrives(i)
    /\ IF ~IsAuthenticated(user)
       THEN Respond(i, "delete_favorite", user, pk, "unauthorized")
            /\ UNCHANGED favorite
       ELSE IF pk \notin DOMAIN recipe_rows
       THEN Respond(i, "delete_favorite", user, pk, "Http404")
            /\ UNCHANGED favorite
       ELSE LET deleted_rows == favorite[<<user, pk>>] IN
            /\ favorite' = filter_delete(favorite, user, pk)
            /\ Respond(i, "delete_favorite", user, pk,
                       DeleteResponse(deleted_rows))
    /\ UNCHANGED <<user_rows, shopping_cart, subscriptions, ingredient_recipe,
                   recipe_rows, tag_recipe, recipe_short_links>>

\* RecipeViewset.delete_from_shopping_cart (DELETE recipes/<pk>/shopping_cart/)
delete_from_shopping_cart(i, user, pk) ==
    /\ Arrives(i)
    /\ IF ~IsAuthenticated(user)
       THEN Respond(i, "delete_from_shopping_cart", user, pk, "unauthorized")
            /\ UNCHANGED shopping_cart
       ELSE IF pk \notin DOMAIN recipe_rows
       THEN Respond(i, "delete_from_shopping_cart", user, pk, "Http404")
            /\ UNCHANGED shopping_cart
       ELSE LET deleted_rows == shopping_cart[<<user, pk>>] IN
            /\ shopping_cart' = filter_delete(shopping_cart, user, pk)
            /\ Respond(i, "delete_from_shopping_cart", user, pk,
                       DeleteResponse(deleted_rows))
    /\ UNCHANGED <<user_rows, favorite, subscriptions, ingredient_recipe,
                   recipe_rows, tag_recipe, recipe_short_links>>

\* ------------------------------------------------------------------------
\* UserSubscriptions: the subscribe views of UserViewset and the model's own
\* entry points.

\* UserSubscriptions.clean: run by full_clean (model forms); save() and
\* objects.create() do not call it.
clean(subscriber, subscribed_to) == subscriber # subscribed_to

\* The INSERT of a UserSubscriptions row is accepted: the checks made at the
\* storage layer are the unique constraint and the two foreign keys.
SubscriptionAccepted(subscriber, subscribed_to) ==
    /\ fk_user(subscriber)
    /\ fk_user(subscribed_to)
    /\ unique_user_subscription(subscriber, subscribed_to)

\* The INSERT of a UserSubscriptions row (Model.save, objects.create).
save(subscriber, subscribed_to) ==
    subscriptions' =
        IF SubscriptionAccepted(subscriber, subscribed_to)
        THEN [subscriptions EXCEPT ![<<subscriber, subscribed_to>>] = @ + 1]
        ELSE subscriptions

\* What the INSERT returns to its caller.
SaveOutcome(subscriber, subscribed_to) ==
    IF SubscriptionAccepted(subscriber, subscribed_to)
    THEN "created" ELSE "IntegrityError"

\* UniqueTogetherValidator of UserSubscribeSerializer, run by is_valid: the
\* pair is not in the table yet.
UniqueTogetherValidator(subscriber, subscribed_to) ==
    subscriptions[<<subscriber, subscribed_to>>] = 0

\* A view that leaves the self-subscription check out.
no_self_check(user, id) == FALSE

\* `request.user == subscribed_to_user` of UserViewset.subscriptions.
SubscribesToSelf(user, id) == user = id

\* UserViewset.subscriptions (POST users/<id>/subscribe/) up to
\* serializer.is_valid: permission, get_object_or_404(User, pk=id), the
\* self-subscription check and the serializer's uniqueness validator.
subscriptions_post(i, user, id) ==
    /\ Arrives(i)
    /\ IF ~IsAuthenticated(user)
       THEN Respond(i, "subscriptions", user, id, "unauthorized")
       ELSE IF id \notin user_rows
       THEN Respond(i, "subscriptions", user, id, "Http404")
       ELSE IF SubscribesToSelf(user, id)
       THEN Respond(i, "subscriptions", user, id, "self_reference")
       ELSE IF ~UniqueTogetherValidator(user, id)
       THEN Respond(i, "subscriptions", user, id, "already_exists")
       ELSE Start(i, "subscriptions", user, id, "save")
    /\ UNCHANGED <<user_rows, favorite, shopping_cart, subscriptions, ingredient_recipe,
                   recipe_rows, tag_recipe, recipe_short_links>>

\* serializer.save() of UserViewset.subscriptions: the INSERT; the view handles
\* no exception of it.
subscriptions_save(i) ==
    /\ req[i].op = "subscriptions"
    /\ req[i].pc = "save"
    /\ save(req[i].user, req[i].target)
    /\ Finish(i, SaveOutcome(req[i].user, req[i].target))
    /\ UNCHANGED <<user_rows, favorite, shopping_cart, ingredient_recipe,
                   recipe_rows, tag_recipe, recipe_short_links>>

\* UserViewset.delete_subscription (DELETE users/<id>/subscribe/)
delete_subscription(i, user, id) ==
    /\ Arrives(i)
    /\ IF ~IsAuthenticated(user)
       THEN Respond(i, "delete_subscription", user, id, "unauthorized")
            /\ UNCHANGED subscriptions
       ELSE IF id \notin user_rows
       THEN Respond(i, "delete_subscription", user, id, "Http404")
            /\ UNCHANGED subscriptions
       ELSE LET deleted_rows == subscriptions[<<user, id>>] IN
            /\ subscriptions' = filter_delete(subscriptions, user, id)
            /\ Respond(i, "delete_subscription", user, id,
                       DeleteResponse(deleted_rows))
    /\ UNCHANGED <<user_rows, favorite, shopping_cart, ingredient_recipe,
                   recipe_rows, tag_recipe, recipe_short_links>>

\* UserSubscriptions.subscribe(subscriber, subscribed_to), called with two users.
subscribe(i, subscriber, subscribed_to) ==
    /\ Arrives(i)
    /\ IF subscriber = subscribed_to
       THEN /\ Respond(i, "subscribe", subscriber, subscribed_to, "ValueError")
            /\ UNCHANGED subscriptions
       ELSE /\ save(subscriber, subscribed_to)
            /\ Respond(i, "subscribe", subscriber, subscribed_to,
                       SaveOutcome(subscriber, subscribed_to))
    /\ UNCHANGED <<user_rows, favorite, shopping_cart, ingredient_recipe,
                   recipe_rows, tag_recipe, recipe_short_links>>

\* UserSubscriptions.objects.create(subscriber=..., subscribed_to=...): the
\* manager's create is Model.save, which runs no validator and no clean().
objects_create(i, subscriber, subscribed_to) ==
    /\ Arrives(i)
    /\ save(subscriber, subscribed_to)
    /\ Respond(i, "objects_create", subscriber, subscribed_to,
               SaveOutcome(subscriber, subscribed_to))
    /\ UNCHANGED <<user_rows, favorite, shopping_cart, ingredient_recipe,
                   recipe_rows, tag_recipe, recipe_short_links>>

\* ------------------------------------------------------------------------
\* The flags of a serialized recipe.

HasRow(table, left, right) ==
    <<left, right>> \in DOMAIN table /\ table[<<left, right>>] > 0

\* RecipeViewset.get_queryset: the annotation is_favorited of recipe pk.
annotate_is_favorited(user, pk) ==
    IF user # Anonymous THEN HasRow(favorite, user, pk) ELSE FALSE

\* RecipeViewset.get_queryset: the annotation is_in_shopping_cart of recipe pk.
annotate_is_in_shopping_cart(user, pk) ==
    IF user # Anonymous THEN HasRow(shopping_cart, user, pk) ELSE FALSE

\* RecipeSerializer.get_is_favorited: obj.favorited_by_users.exists()
get_is_favorited(user, pk) ==
    \E u \in UserIds : HasRow(favorite, u, pk)

\* RecipeSerializer.get_is_in_shopping_cart
get_is_in_shopping_cart(user, pk) ==
    /\ IsAuthenticated(user)
    /\ HasRow(shopping_cart, user, pk)

\* rest_framework.permissions.SAFE_METHODS
SAFE_METHODS == {"GET", "HEAD", "OPTIONS"}

\* A permission that lets every caller through.
AllowAny(method, user, pk) == TRUE

\* IsAuthorOrReadOnly.has_object_permission, on the recipe of get_object
has_object_permission(method, user, pk) ==
    method \in SAFE_METHODS \/ recipe_rows[pk].author = user

\* The ingredients of recipe.ingredients.all()
IngredientsOf(pk) == {l.ingredient : l \in {x \in ingredient_recipe : x.recipe = pk}}

\* obj.recipes_using_ingredient.first(): the first IngredientRecipe row of the
\* ingredient in the order of Meta.ordering = ('recipe', 'ingredient'), that is
\* a row of the ingredient's recipe of least primary key; among several rows of
\* that recipe the database chooses.
recipes_using_ingredient_first(ingredient) ==
    {l \in ingredient_recipe :
        /\ l.ingredient = ingredient
        /\ \A m \in ingredient_recipe :
              m.ingredient = ingredient => l.recipe <= m.recipe}

\* IngredientSerializer.get_amount: the amounts the method can return.
get_amount(ingredient) ==
    {l.amount : l \in recipes_using_ingredient_first(ingredient)}

\* The `amount` fields IngredientSerializer(many=True) can emit for a recipe.
SerializedAmounts(pk) ==
    {amounts \in [IngredientsOf(pk) -> {l.amount : l \in ingredient_recipe}] :
        \A ingredient \in IngredientsOf(pk) :
            amounts[ingredient] \in get_amount(ingredient)}

\* RecipeViewset.retrieve (GET recipes/<pk>/): the permissions
\* (IsAuthenticatedOrReadOnly lets every GET through), the annotated queryset row and
\* the fields RecipeSerializer emits (its SerializerMethodFields is_favorited and
\* is_in_shopping_cart take their values from get_is_favorited and
\* get_is_in_shopping_cart; tags and ingredients are the nested serializers over
\* obj.tags and obj.ingredients, the latter with the amount of get_amount). The
\* reads are taken at one instant.
retrieve(i, user, pk) ==
    /\ Arrives(i)
    /\ IF pk \notin DOMAIN recipe_rows
       THEN Respond(i, "retrieve", user, pk, "Http404")
       ELSE IF ~has_object_permission("GET", user, pk)
       THEN Respond(i, "retrieve", user, pk, "forbidden")
       ELSE \E amounts \in SerializedAmounts(pk) :
            req' = [req EXCEPT ![i] =
                [op |-> "retrieve", user |-> user, target |-> pk,
                 pc |-> "done", status |-> "ok",
                 body |-> [annotated_is_favorited |-> annotate_is_favorited(user, pk),
                           annotated_is_in_shopping_cart |->
                               annotate_is_in_shopping_cart(user, pk),
                           is_favorited |-> get_is_favorited(user, pk),
                           is_in_shopping_cart |-> get_is_in_shopping_cart(user, pk),
                           tags |-> {t.tag : t \in {x \in tag_recipe : x.recipe = pk}},
                           ingredients |-> IngredientsOf(pk),
                           amounts |-> amounts]]]
    /\ UNCHANGED <<user_rows, favorite, shopping_cart, subscriptions, ingredient_recipe,
                   recipe_rows, tag_recipe, recipe_short_links>>

\* ------------------------------------------------------------------------
\* The shopping list.

Repeat(x, n) == [k \in 1..n |-> x]

\* user.shopping_cart.all(): the recipes of the user's cart rows from recipe
\* onwards, in the order of ShoppingCart.Meta.ordering = ('user', 'recipe').
RECURSIVE shopping_cart_all(_, _)
shopping_cart_all(user, recipe) ==
    IF recipe > NumRecipes THEN <<>>
    ELSE Repeat(recipe, shopping_cart[<<user, recipe>>])
             \o shopping_cart_all(user, recipe + 1)

\* The names of recipe.ingredients.all(): one Ingredient per IngredientRecipe
\* row of the recipe, in the order of Ingredient.Meta.ordering = ('name',). Rows
\* of equal name come in an order the database chooses; only their names are
\* read, so the sequence of names is the same in each.
RECURSIVE OrderByName(_)
OrderByName(lines) ==
    IF lines = {} THEN <<>>
    ELSE LET first == CHOOSE l \in lines : \A m \in lines :
                          Ingredient[l.ingredient].name <= Ingredient[m.ingredient].name
         IN <<Ingredient[first.ingredient].name>> \o OrderByName(lines \ {first})

ingredients_all(recipe) ==
    OrderByName({l \in ingredient_recipe : l.recipe = recipe})

\* The names read by the two nested loops over the cart rows `recipes`.
RECURSIVE NamesRead(_)
NamesRead(recipes) ==
    IF recipes = <<>> THEN <<>>
    ELSE ingredients_all(Head(recipes)) \o NamesRead(Tail(recipes))

\* ingredients_counter[ingredient.name] += 1 on a Counter, which keeps its keys
\* in the order of their first insertion.
CounterAdd(counter, name) ==
    IF \E k \in DOMAIN counter : counter[k].name = name
    THEN [k \in DOMAIN counter |->
             IF counter[k].name = name
             THEN [name |-> name, count |-> counter[k].count + 1]
             ELSE counter[k]]
    ELSE Append(counter, [name |-> name, count |-> 1])

RECURSIVE ingredients_counter(_, _)
ingredients_counter(counter, names) ==
    IF names = <<>> THEN counter
    ELSE ingredients_counter(CounterAdd(counter, Head(names)), Tail(names))

\* A text built from the cart rows of every user.
text_of_every_cart(user) ==
    LET recipes == [r \in RecipeIds |-> r] IN
    [recipes |-> recipes,
     ingredients |-> ingredients_counter(<<>>, NamesRead(recipes))]

\* ShoppingListGeneratorMixin._get_shopping_cart_text: the recipe lines and the
\* "name: count" lines of the text.
_get_shopping_cart_text(user) ==
    LET recipes == shopping_cart_all(user, 1) IN
    [recipes |-> recipes,
     ingredients |-> ingredients_counter(<<>>, NamesRead(recipes))]

\* A download that empties the cart it has listed.
download_and_empty_cart(i, user) ==
    /\ Arrives(i)
    /\ IsAuthenticated(user)
    /\ req' = [req EXCEPT ![i] =
                [op |-> "download_shopping_cart", user |-> user, target |-> 0,
                 pc |-> "done", status |-> "ok",
                 body |-> _get_shopping_cart_text(user)]]
    /\ shopping_cart' = delete_all_of_user(shopping_cart, user, 0)
    /\ UNCHANGED <<user_rows, favorite, subscriptions, ingredient_recipe,
                   recipe_rows, tag_recipe, recipe_short_links>>

\* RecipeViewset.download_shopping_cart (GET recipes/download_shopping_cart/)
download_shopping_cart(i, user) ==
    /\ Arrives(i)
    /\ IF ~IsAuthenticated(user)
       THEN Respond(i, "download_shopping_cart", user, 0, "unauthorized")
       ELSE req' = [req EXCEPT ![i] =
                [op |-> "download_shopping_cart", user |-> user, target |-> 0,
                 pc |-> "done", status |-> "ok",
                 body |-> _get_shopping_cart_text(user)]]
    /\ UNCHANGED <<user_rows, favorite, shopping_cart, subscriptions, ingredient_recipe,
                   recipe_rows, tag_recipe, recipe_short_links>>

\* ------------------------------------------------------------------------
\* Specifications.

Callers == UserIds \cup {Anonymous}

\* A database in which every recipe has one ingredient line.
OneLineEach == {[recipe |-> r, ingredient |-> 1, amount |-> 1] : r \in RecipeIds}

\* The recipes of the database before any request: recipe r was written by
\* user ((r - 1) mod NumUsers) + 1 and carries the first tag; no recipe has a
\* short link yet.
LoadedRecipes ==
    [r \in RecipeIds |-> [author |-> ((r - 1) % NumUsers) + 1, name |-> 1]]

LoadedTags == {[recipe |-> r, tag |-> 1] : r \in RecipeIds}

RecipesAsLoaded ==
    /\ user_rows = UserIds
    /\ recipe_rows = LoadedRecipes
    /\ tag_recipe = LoadedTags
    /\ recipe_short_links = {}

\* The relation tables are empty and no request has arrived.
Init ==
    /\ favorite = EmptyTable(UserIds, RecipeIds)
    /\ shopping_cart = EmptyTable(UserIds, RecipeIds)
    /\ subscriptions = EmptyTable(UserIds, UserIds)
    /\ ingredient_recipe = OneLineEach
    /\ RecipesAsLoaded
    /\ req = [i \in Requests |-> NewRequest]

\* The requests that add and remove relation rows, in any interleaving.
Next ==
    \E i \in Requests :
        \/ \E user \in Callers, pk \in RecipePks : favorites(i, user, pk)
        \/ \E user \in Callers, pk \in RecipePks : shopping_cart_post(i, user, pk)
        \/ get_or_create_step(i)
        \/ \E user \in Callers, pk \in RecipePks : delete_favorite(i, user, pk)
        \/ \E user \in Callers, pk \in RecipePks :
               delete_from_shopping_cart(i, user, pk)
        \/ \E user \in Callers, id \in UserPks : subscriptions_post(i, user, id)
        \/ subscriptions_save(i)
        \/ \E user \in Callers, id \in UserPks : delete_subscription(i, user, id)
        \/ \E s \in UserIds, t \in UserIds : subscribe(i, s, t)
        \/ \E s \in UserIds, t \in UserIds : objects_create(i, s, t)

Spec == Init /\ [][Next]_vars

\* Recipes are read while favorites and cart rows are added and removed.
NextFlags ==
    \E i \in Requests :
        \/ \E user \in Callers, pk \in RecipePks : favorites(i, user, pk)
        \/ \E user \in Callers, pk \in RecipePks : shopping_cart_post(i, user, pk)
        \/ get_or_create_step(i)
        \/ \E user \in Callers, pk \in RecipePks : delete_favorite(i, user, pk)
        \/ \E user \in Callers, pk \in RecipePks :
               delete_from_shopping_cart(i, user, pk)
        \/ \E user \in Callers, pk \in RecipePks : retrieve(i, user, pk)

SpecFlags == Init /\ [][NextFlags]_vars

\* The ingredient lines a recipe can have: one or two ingredients, each once.
RecipeLines(r) ==
    LET Line(g, a) == [recipe |-> r, ingredient |-> g, amount |-> a] IN
    {{Line(g, a)} : g \in IngredientIds, a \in 1..MaxAmount}
    \cup {{Line(g, a), Line(h, b)} :
             <<g, h>> \in {p \in IngredientIds \X IngredientIds : p[1] < p[2]},
             <<a, b>> \in (1..MaxAmount) \X (1..MaxAmount)}

RECURSIVE AllLines(_)
AllLines(r) ==
    IF r > NumRecipes THEN {{}}
    ELSE {own \cup rest : own \in RecipeLines(r), rest \in AllLines(r + 1)}

\* Any recipes and any carts: the inputs of the shopping list.
InitList ==
    /\ favorite = EmptyTable(UserIds, RecipeIds)
    /\ shopping_cart \in [UserIds \X RecipeIds -> {0, 1}]
    /\ subscriptions = EmptyTable(UserIds, UserIds)
    /\ ingredient_recipe \in AllLines(1)
    /\ RecipesAsLoaded
    /\ req = [i \in Requests |-> NewRequest]

NextList == \E i \in Requests, user \in Callers : download_shopping_cart(i, user)

SpecList == InitList /\ [][NextList]_vars

\* ------------------------------------------------------------------------
\* The shopping list (SpecList).

Downloaded(i) ==
    /\ req[i].op = "download_shopping_cart"
    /\ req[i].pc = "done"
    /\ req[i].status = "ok"

\* The ingredient lines of the recipes in the user's cart.
CartLines(user) ==
    {l \in ingredient_recipe : shopping_cart[<<user, l.recipe>>] > 0}

NamedLines(user, name) ==
    {l \in CartLines(user) : Ingredient[l.ingredient].name = name}

RECURSIVE SumAmounts(_)
SumAmounts(lines) ==
    IF lines = {} THEN 0
    ELSE LET l == CHOOSE x \in lines : TRUE
         IN l.amount + SumAmounts(lines \ {l})

\* C1: every entry of a built shopping list carries the sum of the amounts of
\* the ingredient lines of that ingredient in the recipes of the user's cart.
C1_TotalIsSumOfAmounts ==
    \A i \in Requests : Downloaded(i) =>
        \A k \in DOMAIN req[i].body.ingredients :
            LET entry == req[i].body.ingredients[k] IN
            entry.count = SumAmounts(NamedLines(req[i].user, entry.name))

\* C2: the shopping list has one entry per (name, measurement unit) pair: a
\* name used with two units in the cart's recipes has two entries.
C2_OneEntryPerNameAndUnit ==
    \A i \in Requests : Downloaded(i) =>
        \A g \in IngredientIds :
            LET name == Ingredient[g].name
                units == {Ingredient[l.ingredient].measurement_unit :
                              l \in NamedLines(req[i].user, name)}
                entries == {k \in DOMAIN req[i].body.ingredients :
                                req[i].body.ingredients[k].name = name}
            IN Cardinality(entries) = Cardinality(units)

C4_AnonymousFlagsAreFalse ==
    \A i \in Requests :
        (/\ req[i].op = "retrieve"
         /\ req[i].status = "ok"
         /\ req[i].user = Anonymous)
        => /\ ~req[i].body.annotated_is_favorited
           /\ ~req[i].body.annotated_is_in_shopping_cart
           /\ ~req[i].body.is_favorited
           /\ ~req[i].body.is_in_shopping_cart

\* Request i is served in this step: user reads recipe pk.
Reads(i, user, pk) ==
    /\ req[i].pc = "new"
    /\ req'[i].op = "retrieve"
    /\ req'[i].status = "ok"
    /\ req'[i].user = user
    /\ req'[i].target = pk

\* C5: a recipe read by an authenticated user u is reported with is_favorited
\* true iff Favorite holds the row (u, recipe) and with is_in_shopping_cart
\* true iff ShoppingCart holds the row (u, recipe), at the time of the read.
C5_FlagsAreTheViewersRows ==
    [][\A i \in Requests, u \in UserIds, pk \in RecipeIds :
          Reads(i, u, pk) =>
              /\ req'[i].body.is_favorited <=> HasRow(favorite, u, pk)
              /\ req'[i].body.is_in_shopping_cart <=> HasRow(shopping_cart, u, pk)]_vars

\* ------------------------------------------------------------------------
\* The relation tables (Spec).

\* The requests that have arrived with operation op for the pair.
RequestsOf(op, left, right) ==
    {i \in Requests : req[i].op = op /\ req[i].user = left /\ req[i].target = right}

AllDone(S) == \A i \in S : req[i].pc = "done"

\* Of the finished requests S one has created the row and every other one was
\* told that the row exists.
OneCreatedOthersExist(S) ==
    /\ Cardinality({i \in S : req[i].status = "created"}) = 1
    /\ \A i \in S : req[i].status \in {"created", "already_exists"}

\* C6: when the add requests for one (user, recipe) pair of Favorite or of
\* ShoppingCart have all finished, and no request removes that pair, exactly
\* one of them has created the row and every other one reports that the row
\* already exists; none ends with an error of the storage layer.
C6_OneAddSucceeds ==
    \A user \in UserIds, pk \in RecipeIds :
        /\ LET adds == RequestsOf("favorites", user, pk) IN
           (/\ adds # {}
            /\ AllDone(adds)
            /\ RequestsOf("delete_favorite", user, pk) = {})
           => OneCreatedOthersExist(adds)
        /\ LET adds == RequestsOf("shopping_cart", user, pk) IN
           (/\ adds # {}
            /\ AllDone(adds)
            /\ RequestsOf("delete_from_shopping_cart", user, pk) = {})
           => OneCreatedOthersExist(adds)

\* Two add requests for one pair have finished, one of them with the row created.
C6_TwoAddsFinished ==
    \E user \in UserIds, pk \in RecipeIds, op \in {"favorites", "shopping_cart"} :
        LET adds == RequestsOf(op, user, pk) IN
        /\ Cardinality(adds) = 2
        /\ AllDone(adds)
        /\ {req[i].status : i \in adds} = {"created", "already_exists"}

C8_OneRowPerPair ==
    /\ \A p \in DOMAIN favorite : favorite[p] <= 1
    /\ \A p \in DOMAIN shopping_cart : shopping_cart[p] <= 1
    /\ \A p \in DOMAIN subscriptions : subscriptions[p] <= 1

\* An INSERT of a pair whose row is in the table was rejected: the request is
\* at the second get of get_or_create.
C8_InsertRejected ==
    \E i \in Requests :
        /\ req[i].op = "favorites"
        /\ req[i].pc = "reget"
        /\ favorite[<<req[i].user, req[i].target>>] = 1

\* Request i is served in this step: subscriber subscribes to itself, through
\* the view or through UserSubscriptions.subscribe.
SubscribesSelf(i, op, u) ==
    /\ req[i].pc = "new"
    /\ req'[i].op = op
    /\ req'[i].user = u
    /\ req'[i].target = u

\* C9: a request of user u to subscribe to u fails with the self-reference
\* error (the view's 400, the ValueError of UserSubscriptions.subscribe) and
\* leaves UserSubscriptions as it was.
C9_SelfSubscribeFails ==
    [][\A i \in Requests, u \in UserIds :
          /\ SubscribesSelf(i, "subscriptions", u) =>
                 /\ req'[i].pc = "done"
                 /\ req'[i].status = "self_reference"
                 /\ subscriptions' = subscriptions
          /\ SubscribesSelf(i, "subscribe", u) =>
                 /\ req'[i].pc = "done"
                 /\ req'[i].status = "ValueError"
                 /\ subscriptions' = subscriptions]_vars

\* A user has asked the view to subscribe to itself and was refused.
C9_SelfSubscribeRefused ==
    \E i \in Requests :
        /\ req[i].op = "subscriptions"
        /\ req[i].user \in UserIds
        /\ req[i].target = req[i].user
        /\ req[i].pc = "done"
        /\ req[i].status = "self_reference"

\* C10: no UserSubscriptions row has subscriber = subscribed_to.
C10_NoSelfSubscription ==
    \A u \in UserIds : subscriptions[<<u, u>>] = 0
\* ------------------------------------------------------------------------
\* Removing relation rows (SpecRemove).

\* A store in which owner has every recipe in the favorites and in the cart
\* and follows every other user; the other users have no rows.
InitRemove ==
    /\ \E owner \in UserIds :
          /\ favorite = [p \in UserIds \X RecipeIds |->
                            IF p[1] = owner THEN 1 ELSE 0]
          /\ shopping_cart = [p \in UserIds \X RecipeIds |->
                                 IF p[1] = owner THEN 1 ELSE 0]
          /\ subscriptions = [p \in UserIds \X UserIds |->
                                 IF p[1] = owner /\ p[2] # owner THEN 1 ELSE 0]
    /\ ingredient_recipe = OneLineEach
    /\ RecipesAsLoaded
    /\ req = [i \in Requests |-> NewRequest]

NextRemove ==
    \E i \in Requests :
        \/ \E user \in Callers, pk \in RecipePks : favorites(i, user, pk)
        \/ get_or_create_step(i)
        \/ \E user \in Callers, pk \in RecipePks : delete_favorite(i, user, pk)
        \/ \E user \in Callers, pk \in RecipePks :
               delete_from_shopping_cart(i, user, pk)
        \/ \E user \in Callers, id \in UserPks : delete_subscription(i, user, id)

SpecRemove == InitRemove /\ [][NextRemove]_vars

\* Request i is served in this step: user asks to remove the pair
\* (user, target) through the view op.
Removes(i, op, user, target) ==
    /\ req[i].pc = "new"
    /\ req'[i].op = op
    /\ req'[i].user = user
    /\ req'[i].target = target

RelationsUnchanged ==
    /\ favorite' = favorite
    /\ shopping_cart' = shopping_cart
    /\ subscriptions' = subscriptions

\* C11: a remove request (delete_favorite, delete_from_shopping_cart,
\* delete_subscription) for a pair that has no row is answered with the
\* "not found" error response and leaves Favorite, ShoppingCart and
\* UserSubscriptions as they were.
C11_RemoveOfMissingPairFails ==
    [][\A i \in Requests, u \in UserIds :
          /\ \A pk \in RecipeIds :
                /\ (Removes(i, "delete_favorite", u, pk) /\ favorite[<<u, pk>>] = 0)
                   => (req'[i].status = "not_found" /\ RelationsUnchanged)
                /\ (/\ Removes(i, "delete_from_shopping_cart", u, pk)
                    /\ shopping_cart[<<u, pk>>] = 0)
                   => (req'[i].status = "not_found" /\ RelationsUnchanged)
          /\ \A id \in UserIds :
                (Removes(i, "delete_subscription", u, id) /\ subscriptions[<<u, id>>] = 0)
                => (req'[i].status = "not_found" /\ RelationsUnchanged)]_vars

\* A remove request of each kind has been refused for a pair without a row,
\* among them one of a user who has no row at all.
C11_RemoveRefused ==
    \E i \in Requests, j \in Requests :
        /\ req[i].op = "delete_subscription"
        /\ req[i].status = "not_found"
        /\ req[j].op \in {"delete_favorite", "delete_from_shopping_cart"}
        /\ req[j].status = "not_found"

C13_RemoveThenAddSucceeds ==
    \A i \in Requests, j \in Requests :
        (/\ i < j
         /\ req[i].op = "delete_favorite"
         /\ req[j].op = "favorites"
         /\ req[j].user = req[i].user
         /\ req[j].target = req[i].target
         /\ req[i].user \in UserIds
         /\ req[i].target \in RecipeIds
         /\ RequestsOf("delete_favorite", req[i].user, req[i].target) = {i}
         /\ RequestsOf("favorites", req[i].user, req[i].target) = {j}
         /\ req[j].pc = "done")
        => /\ req[i].status \in {"deleted", "not_found"}
           /\ req[i].status = "deleted" =>
                 /\ req[j].status = "created"
                 /\ favorite[<<req[j].user, req[j].target>>] = 1

\* A favorite was removed and added again.
C13_RemovedAndAddedAgain ==
    \E i \in Requests, j \in Requests :
        /\ i < j
        /\ req[i].op = "delete_favorite"
        /\ req[i].status = "deleted"
        /\ req[j].op = "favorites"
        /\ req[j].user = req[i].user
        /\ req[j].target = req[i].target
        /\ req[j].status = "created"

\* ------------------------------------------------------------------------
\* RecipeShortLinks: the short link of a recipe.

\* MAX_LINK_LENGTH of recipes/constants.py
MAX_LINK_LENGTH == 8

\* The values str(uuid.uuid4())[:MAX_LINK_LENGTH] can take.
Tokens == 1..NumTokens

\* The value of short_link in a row created without one: the empty string.
EmptyLink == 0

\* len(short_link)
LinkLength(short_link) == IF short_link = EmptyLink THEN 0 ELSE MAX_LINK_LENGTH

\* The RecipeShortLinks rows of a recipe.
LinksOf(r) == {l \in recipe_short_links : l.recipe = r}

\* A RecipeShortLinks table that accepts several rows for one recipe.
no_one_to_one(r) == TRUE

\* recipe = OneToOneField('Recipe'): no second row for the recipe.
unique_recipe(r) == LinksOf(r) = {}

\* short_link = CharField(unique=True): no other row holds the value.
unique_short_link(id, short_link) ==
    \A l \in recipe_short_links : l.id # id => l.short_link # short_link

\* The call returns short_link_instance, read from row l.
ReturnLink(i, r, l) ==
    req' = [req EXCEPT ![i] =
               [op |-> "get_or_create_short_link", user |-> Anonymous,
                target |-> r, pc |-> "done", status |-> "ok",
                body |-> [id |-> l.id, short_link |-> l.short_link]]]

\* A get_or_create_short_link that makes a new link on every call.
regenerate_short_link(i, r) ==
    /\ Arrives(i)
    /\ r \in DOMAIN recipe_rows
    /\ IF LinksOf(r) = {}
       THEN Start(i, "get_or_create_short_link", Anonymous, r, "create")
       ELSE \E l \in LinksOf(r) :
               req' = [req EXCEPT ![i] =
                          [op |-> "get_or_create_short_link", user |-> Anonymous,
                           target |-> r, pc |-> "generate", status |-> "none",
                           body |-> [id |-> l.id, short_link |-> EmptyLink]]]
    /\ UNCHANGED <<user_rows, favorite, shopping_cart, subscriptions, ingredient_recipe,
                   recipe_rows, tag_recipe, recipe_short_links>>

\* RecipeShortLinks.get_or_create_short_link(recipe), the get of
\* cls.objects.get_or_create(recipe=recipe): a row that exists is returned as it
\* is (created is False).
get_or_create_short_link(i, r) ==
    /\ Arrives(i)
    /\ r \in DOMAIN recipe_rows
    /\ LET found == LinksOf(r) IN
       IF found = {}
       THEN Start(i, "get_or_create_short_link", Anonymous, r, "create")
       ELSE IF Cardinality(found) = 1
       THEN \E l \in found : ReturnLink(i, r, l)
       ELSE Respond(i, "get_or_create_short_link", Anonymous, r,
                    "MultipleObjectsReturned")
    /\ UNCHANGED <<user_rows, favorite, shopping_cart, subscriptions, ingredient_recipe,
                   recipe_rows, tag_recipe, recipe_short_links>>

\* The create of get_or_create: INSERT (recipe, short_link = ''). An
\* IntegrityError is caught by get_or_create, which then gets again.
short_link_create(i) ==
    /\ req[i].op = "get_or_create_short_link"
    /\ req[i].pc = "create"
    /\ IF /\ fk_recipe(req[i].target)
          /\ unique_recipe(req[i].target)
          /\ unique_short_link(i, EmptyLink)
       THEN /\ recipe_short_links' = recipe_short_links \cup
                   {[id |-> i, recipe |-> req[i].target, short_link |-> EmptyLink]}
            /\ req' = [req EXCEPT ![i].pc = "generate",
                                  ![i].body = [id |-> i, short_link |-> EmptyLink]]
       ELSE /\ Goto(i, "reget")
            /\ UNCHANGED recipe_short_links
    /\ UNCHANGED <<user_rows, favorite, shopping_cart, subscriptions, ingredient_recipe,
                   recipe_rows, tag_recipe>>

\* The second get of get_or_create, after the IntegrityError: the row of the
\* recipe is returned (created is False); without one the IntegrityError is
\* raised to the caller.
short_link_reget(i) ==
    /\ req[i].op = "get_or_create_short_link"
    /\ req[i].pc = "reget"
    /\ LET found == LinksOf(req[i].target) IN
       IF found = {}
       THEN Finish(i, "IntegrityError")
       ELSE \E l \in found : ReturnLink(i, req[i].target, l)
    /\ UNCHANGED <<user_rows, favorite, shopping_cart, subscriptions, ingredient_recipe,
                   recipe_rows, tag_recipe, recipe_short_links>>

\* generate_short_link: short_link = str(uuid.uuid4())[:MAX_LINK_LENGTH]
generate_short_link(i) ==
    /\ req[i].op = "get_or_create_short_link"
    /\ req[i].pc = "generate"
    /\ \E short_link \in Tokens :
          req' = [req EXCEPT ![i].pc = "exists", ![i].body.short_link = short_link]
    /\ UNCHANGED <<user_rows, favorite, shopping_cart, subscriptions, ingredient_recipe,
                   recipe_rows, tag_recipe, recipe_short_links>>

\* generate_short_link: `while RecipeShortLinks.objects.filter(
\* short_link=short_link).exists()` draws again; otherwise the value is returned.
short_link_exists(i) ==
    /\ req[i].op = "get_or_create_short_link"
    /\ req[i].pc = "exists"
    /\ IF \E l \in recipe_short_links : l.short_link = req[i].body.short_link
       THEN Goto(i, "generate")
       ELSE Goto(i, "save")
    /\ UNCHANGED <<user_rows, favorite, shopping_cart, subscriptions, ingredient_recipe,
                   recipe_rows, tag_recipe, recipe_short_links>>

\* short_link_instance.save(): UPDATE of the row's short_link, and the return
\* of the instance. Model.save makes an INSERT of the instance when the UPDATE
\* finds no row of its primary key.
short_link_save(i) ==
    /\ req[i].op = "get_or_create_short_link"
    /\ req[i].pc = "save"
    /\ IF /\ unique_short_link(req[i].body.id, req[i].body.short_link)
          /\ \/ \E l \in recipe_short_links : l.id = req[i].body.id
             \/ fk_recipe(req[i].target) /\ unique_recipe(req[i].target)
       THEN /\ recipe_short_links' =
                   {l \in recipe_short_links : l.id # req[i].body.id} \cup
                   {[id |-> req[i].body.id, recipe |-> req[i].target,
                     short_link |-> req[i].body.short_link]}
            /\ Finish(i, "ok")
       ELSE /\ Finish(i, "IntegrityError")
            /\ UNCHANGED recipe_short_links
    /\ UNCHANGED <<user_rows, favorite, shopping_cart, subscriptions, ingredient_recipe,
                   recipe_rows, tag_recipe>>

\* One step of call i of get_or_create_short_link.
short_link_step(i) ==
    \/ short_link_create(i)
    \/ short_link_reget(i)
    \/ generate_short_link(i)
    \/ short_link_exists(i)
    \/ short_link_save(i)

\* Short links are made while favorites are added and removed.
NextLinks ==
    \E i \in Requests :
        \/ \E r \in RecipeIds : get_or_create_short_link(i, r)
        \/ short_link_create(i)
        \/ short_link_reget(i)
        \/ generate_short_link(i)
        \/ short_link_exists(i)
        \/ short_link_save(i)
        \/ \E user \in UserIds, pk \in RecipeIds : favorites(i, user, pk)
        \/ get_or_create_step(i)
        \/ \E user \in UserIds, pk \in RecipeIds : delete_favorite(i, user, pk)

SpecLinks == Init /\ [][NextLinks]_vars

\* A call that has started goes on running.
SpecLinksFair == SpecLinks /\ \A i \in Requests : WF_vars(short_link_step(i))

\* Call i of get_or_create_short_link has returned a link.
Returned(i) ==
    /\ req[i].op = "get_or_create_short_link"
    /\ req[i].pc = "done"
    /\ req[i].status = "ok"

\* Request i is served in this step: get_or_create_short_link(r) is called.
Ensures(i, r) ==
    /\ req[i].pc = "new"
    /\ req'[i].op = "get_or_create_short_link"
    /\ req'[i].target = r

\* C14: a call of get_or_create_short_link for a recipe that has its short link
\* returns at once with the stored link, the link every earlier call returned
\* for the recipe; it draws no candidate and writes nothing.
C14_SecondCallReturnsSameLink ==
    [][\A i \in Requests, r \in RecipeIds : \A l \in LinksOf(r) :
          (Ensures(i, r) /\ l.short_link # EmptyLink)
          => /\ req'[i].pc = "done"
             /\ req'[i].status = "ok"
             /\ req'[i].body.short_link = l.short_link
             /\ \A j \in Requests :
                   (/\ Returned(j)
                    /\ req[j].target = r
                    /\ req[j].body.short_link # EmptyLink)
                   => req'[i].body.short_link = req[j].body.short_link
             /\ recipe_short_links' = recipe_short_links]_vars

\* The call that made a recipe's link and a later call for the recipe have
\* both returned.
C14_CalledTwice ==
    \E i \in Requests, j \in Requests :
        /\ i < j
        /\ Returned(i)
        /\ Returned(j)
        /\ req[i].target = req[j].target
        /\ req[i].body.id = i
        /\ req[j].body.id = i
        /\ req[j].body.short_link \in Tokens

\* C15: calls of get_or_create_short_link for distinct recipes without a link,
\* run concurrently, all succeed, and no two RecipeShortLinks rows hold the same
\* short_link.
C15_ConcurrentLinksSucceed ==
    /\ \A i \in Requests :
          req[i].op = "get_or_create_short_link" => req[i].status \in {"none", "ok"}
    /\ \A l1 \in recipe_short_links, l2 \in recipe_short_links :
          l1 # l2 => l1.short_link # l2.short_link

\* C16: every call of get_or_create_short_link ends: with a link or, when
\* the candidates keep colliding, with an error after a fixed number of
\* attempts.
C16_ShortLinkCallEnds ==
    \A i \in Requests :
        (req[i].op = "get_or_create_short_link") ~> (req[i].pc = "done")

C18_CallersSeeAssignedLink ==
    \A i \in Requests :
        Returned(i)
        => /\ LinkLength(req[i].body.short_link) = MAX_LINK_LENGTH
           /\ \A j \in Requests :
                 (Returned(j) /\ req[j].target = req[i].target)
                 => req[j].body.short_link = req[i].body.short_link

\* ------------------------------------------------------------------------
\* Recipes: RecipeViewset create (POST recipes/) and partial_update (PATCH
\* recipes/<pk>/) with RecipeSerializer. No statement of these handlers runs in
\* a transaction: every query is committed when it returns.

\* The sequences over S of length at most n.
SeqsUpTo(S, n) == UNION {[1..k -> S] : k \in 0..n}

\* An ingredient id as the JSON payload carries it: the number n or the string
\* "n"; Python compares the two as different values.
RawIds == {[json |-> k, id |-> n] : k \in {"number", "string"}, n \in 1..NumRawIds}

\* An amount as the JSON payload carries it: the number `units`, or
\* units + 1/2 when half.
Whole(n) == [units |-> n, half |-> FALSE]

\* The payloads of a recipe write: tag ids, ingredient items (id, amount) and
\* the recipe's own fields.
Payloads ==
    [tags : SeqsUpTo(TagIds, MaxLines),
     ingredients : SeqsUpTo([id : RawIds, amount : {Whole(n) : n \in 1..MaxAmount}],
                            MaxLines),
     name : {2}]

\* The elements of a sequence.
Range(f) == {f[k] : k \in DOMAIN f}

TagsOf(r) == {t.tag : t \in {x \in tag_recipe : x.recipe = r}}

LinesOf(r) == {l \in ingredient_recipe : l.recipe = r}

\* `amount = float(amount)` and `if amount <= 0` of _validate_ingredients: float
\* keeps the value of the number, fraction included.
IsNotPositive(amount) == amount.units <= 0 /\ ~amount.half

\* RecipeSerializer._validate_ingredients: the ids are pairwise different as
\* given, every item has an id and a positive amount, and the ingredient exists.
_validate_ingredients(ingredients_data) ==
    /\ \A k \in DOMAIN ingredients_data, m \in DOMAIN ingredients_data :
          k < m => ingredients_data[k].id # ingredients_data[m].id
    /\ \A k \in DOMAIN ingredients_data :
          /\ ~IsNotPositive(ingredients_data[k].amount)
          /\ ingredients_data[k].id.id \in IngredientIds

\* The list _validate_ingredients returns: Ingredient.objects.get(id=...) takes
\* the number and the string for the same primary key.
ValidatedIngredients(ingredients_data) ==
    [k \in DOMAIN ingredients_data |->
        [ingredient |-> ingredients_data[k].id.id,
         amount |-> ingredients_data[k].amount]]

\* RecipeSerializer.to_internal_value
to_internal_value(data) ==
    /\ data.ingredients # << >>
    /\ _validate_ingredients(data.ingredients)

\* RecipeSerializer.validate: at least one tag, no tag twice, every tag exists.
validate(data) ==
    /\ data.tags # << >>
    /\ Len(data.tags) = Cardinality(Range(data.tags))
    /\ \A tag_id \in Range(data.tags) : tag_id \in TagIds

is_valid(data) == to_internal_value(data) /\ validate(data)

\* What a valid request carries to the serializer's create or update.
validated_data(data) ==
    [tags |-> Range(data.tags),
     ingredients |-> ValidatedIngredients(data.ingredients),
     name |-> data.name]

\* The primary key the next Recipe row gets.
NextRecipePk ==
    CHOOSE pk \in 1..(NumRecipes + NumRequests) :
        /\ pk \notin DOMAIN recipe_rows
        /\ \A r \in DOMAIN recipe_rows : r < pk

\* amount = PositiveSmallIntegerField: the value written to the column is
\* int(value), which drops the fraction of a float. The validators of the
\* field (MinValueValidator) are run by full_clean only, which neither the
\* serializer nor bulk_create calls.
get_prep_value(amount) == amount.units

\* The IngredientRecipe row of one item of the validated ingredients.
IngredientRecipe(r, item) ==
    [recipe |-> r, ingredient |-> item.ingredient,
     amount |-> get_prep_value(item.amount)]

\* unique_ingredient_recipe of IngredientRecipe.Meta, for the rows of one
\* bulk_create: no two rows with the same (ingredient, recipe, amount), among
\* them or in the table.
unique_ingredient_recipe(r, ingredients) ==
    /\ \A k \in DOMAIN ingredients, m \in DOMAIN ingredients :
          k < m => IngredientRecipe(r, ingredients[k]) # IngredientRecipe(r, ingredients[m])
    /\ \A k \in DOMAIN ingredients :
          IngredientRecipe(r, ingredients[k]) \notin ingredient_recipe

\* POST recipes/: the permission IsAuthenticatedOrReadOnly and
\* serializer.is_valid(raise_exception=True); a valid request goes on to
\* RecipeSerializer.create.
create(i, user, data) ==
    /\ Arrives(i)
    /\ IF ~IsAuthenticated(user)
       THEN Respond(i, "create", user, 0, "unauthorized")
       ELSE IF ~is_valid(data)
       THEN Respond(i, "create", user, 0, "ValidationError")
       ELSE req' = [req EXCEPT ![i] =
                       [op |-> "create", user |-> user, target |-> 0,
                        pc |-> "create", status |-> "none",
                        body |-> validated_data(data)]]
    /\ UNCHANGED <<user_rows, favorite, shopping_cart, subscriptions, ingredient_recipe,
                   recipe_rows, tag_recipe, recipe_short_links>>

\* RecipeSerializer.create: instance = Recipe.objects.create(author=author, ...)
Recipe_objects_create(i) ==
    /\ req[i].op = "create"
    /\ req[i].pc = "create"
    /\ recipe_rows' =
          [pk \in DOMAIN recipe_rows \cup {NextRecipePk} |->
              IF pk \in DOMAIN recipe_rows THEN recipe_rows[pk]
              ELSE [author |-> req[i].user, name |-> req[i].body.name]]
    /\ req' = [req EXCEPT ![i].target = NextRecipePk, ![i].pc = "tags"]
    /\ UNCHANGED <<user_rows, favorite, shopping_cart, subscriptions, ingredient_recipe,
                   tag_recipe, recipe_short_links>>

\* PATCH recipes/<pk>/: the permissions (IsAuthenticatedOrReadOnly, then
\* get_object with IsAuthorOrReadOnly) and serializer.is_valid; a valid request
\* goes on to RecipeSerializer.update.
update(i, user, pk, data) ==
    /\ Arrives(i)
    /\ IF ~IsAuthenticated(user)
       THEN Respond(i, "update", user, pk, "unauthorized")
       ELSE IF pk \notin DOMAIN recipe_rows
       THEN Respond(i, "update", user, pk, "Http404")
       ELSE IF ~has_object_permission("PATCH", user, pk)
       THEN Respond(i, "update", user, pk, "forbidden")
       ELSE IF ~is_valid(data)
       THEN Respond(i, "update", user, pk, "ValidationError")
       ELSE req' = [req EXCEPT ![i] =
                       [op |-> "update", user |-> user, target |-> pk,
                        pc |-> "tags", status |-> "none",
                        body |-> validated_data(data)]]
    /\ UNCHANGED <<user_rows, favorite, shopping_cart, subscriptions, ingredient_recipe,
                   recipe_rows, tag_recipe, recipe_short_links>>

\* instance.tags.set(tags_data), in create and in update: the tag links of the
\* recipe become those of the request. The INSERT of a link of a recipe that
\* is deleted by now is an IntegrityError, which ends the request.
tags_set(i) ==
    /\ req[i].op \in {"create", "update"}
    /\ req[i].pc = "tags"
    /\ IF fk_recipe(req[i].target)
       THEN /\ tag_recipe' =
                   {t \in tag_recipe : t.recipe # req[i].target} \cup
                   {[recipe |-> req[i].target, tag |-> tag] : tag \in req[i].body.tags}
            /\ Goto(i, IF req[i].op = "create" THEN "ingredients" ELSE "clear")
       ELSE /\ Finish(i, "IntegrityError")
            /\ UNCHANGED tag_recipe
    /\ UNCHANGED <<user_rows, favorite, shopping_cart, subscriptions, ingredient_recipe,
                   recipe_rows, recipe_short_links>>

\* RecipeSerializer.update: instance.ingredients.clear()
ingredients_clear(i) ==
    /\ req[i].op = "update"
    /\ req[i].pc = "clear"
    /\ ingredient_recipe' = ingredient_recipe \ LinesOf(req[i].target)
    /\ Goto(i, "ingredients")
    /\ UNCHANGED <<user_rows, favorite, shopping_cart, subscriptions, recipe_rows,
                   tag_recipe, recipe_short_links>>

\* RecipeSerializer._create_ingredients: IngredientRecipe.objects.bulk_create,
\* one INSERT of all the lines; an IntegrityError is handled nowhere and ends
\* the request. create returns after it, update goes on to instance.save().
_create_ingredients(i) ==
    /\ req[i].op \in {"create", "update"}
    /\ req[i].pc = "ingredients"
    /\ IF /\ fk_recipe(req[i].target)
          /\ unique_ingredient_recipe(req[i].target, req[i].body.ingredients)
       THEN /\ ingredient_recipe' = ingredient_recipe \cup
                   {IngredientRecipe(req[i].target, item) : item \in Range(req[i].body.ingredients)}
            /\ IF req[i].op = "create" THEN Finish(i, "created") ELSE Goto(i, "save")
       ELSE /\ Finish(i, "IntegrityError")
            /\ UNCHANGED ingredient_recipe
    /\ UNCHANGED <<user_rows, favorite, shopping_cart, subscriptions, recipe_rows,
                   tag_recipe, recipe_short_links>>

\* RecipeSerializer.update: setattr of the remaining fields and instance.save().
\* Model.save makes an INSERT of the instance, under its primary key, when the
\* UPDATE finds no row; the author of the instance is the caller, whom the
\* object permission has compared with it, and either statement writes the
\* author's foreign key.
instance_save(i) ==
    /\ req[i].op = "update"
    /\ req[i].pc = "save"
    /\ IF fk_user(req[i].user)
       THEN /\ recipe_rows' =
                   [pk \in DOMAIN recipe_rows \cup {req[i].target} |->
                       IF pk = req[i].target
                       THEN [author |-> req[i].user, name |-> req[i].body.name]
                       ELSE recipe_rows[pk]]
            /\ Finish(i, "ok")
       ELSE /\ Finish(i, "IntegrityError")
            /\ UNCHANGED recipe_rows
    /\ UNCHANGED <<user_rows, favorite, shopping_cart, subscriptions, ingredient_recipe,
                   tag_recipe, recipe_short_links>>

\* Recipes are created, updated and read, in any interleaving.
NextRecipes ==
    \E i \in Requests :
        \/ \E user \in Callers, data \in Payloads : create(i, user, data)
        \/ Recipe_objects_create(i)
        \/ \E user \in Callers, pk \in RecipePks, data \in Payloads :
               update(i, user, pk, data)
        \/ tags_set(i)
        \/ ingredients_clear(i)
        \/ _create_ingredients(i)
        \/ instance_save(i)
        \/ \E user \in Callers, pk \in RecipePks : retrieve(i, user, pk)

SpecRecipes == Init /\ [][NextRecipes]_vars

\* C19: a reader of a recipe, at any moment of a concurrent create or update,
\* is given the recipe with tags and with ingredients: never a recipe whose
\* tag links or ingredient lines are not written yet or are cleared.
C19_ReadersSeeWholeRecipes ==
    \A i \in Requests :
        (req[i].op = "retrieve" /\ req[i].status = "ok")
        => /\ req[i].body.tags # {}
           /\ req[i].body.ingredients # {}

\* Request i is a recipe create or update.
Writes(i) == req[i].op \in {"create", "update"}

\* C20: when a recipe create or update that is the only write request fails
\* after its first write, the recipes, tag links and ingredient lines are those
\* of before the request: no new recipe row, and the recipe's previous tags and
\* ingredient lines.
C20_FailedWriteIsRolledBack ==
    \A i \in Requests :
        (/\ Writes(i)
         /\ req[i].pc = "done"
         /\ req[i].status = "IntegrityError"
         /\ \A j \in Requests \ {i} : ~Writes(j))
        => /\ recipe_rows = LoadedRecipes
           /\ tag_recipe = LoadedTags
           /\ ingredient_recipe = OneLineEach

\* ------------------------------------------------------------------------
\* Deleting recipes and users (SpecDelete). Model.delete collects the rows that
\* reference the deleted one through on_delete=models.CASCADE and deletes them
\* with it, in one transaction.

\* A relation whose rows stay when the row they reference is deleted.
DO_NOTHING(table, gone) == table

\* on_delete=models.CASCADE of Favorite.recipe and ShoppingCart.recipe: the
\* rows of the deleted recipes go with them.
cascade_recipe(table, gone) ==
    [p \in DOMAIN table |-> IF p[2] \in gone THEN 0 ELSE table[p]]

\* on_delete=models.CASCADE of Favorite.user and ShoppingCart.user
cascade_user(table, gone) ==
    [p \in DOMAIN table |-> IF p[1] \in gone THEN 0 ELSE table[p]]

\* on_delete=models.CASCADE of UserSubscriptions.subscriber and subscribed_to
cascade_subscriptions(table, gone) ==
    [p \in DOMAIN table |-> IF p[1] \in gone \/ p[2] \in gone THEN 0 ELSE table[p]]

\* on_delete=models.CASCADE of Recipe.author: the recipes of the deleted users.
RecipesOfAuthors(users) ==
    {r \in DOMAIN recipe_rows : recipe_rows[r].author \in users}

\* The delete of the users and of the recipes, with every row that references
\* them.
Delete(users, gone) ==
    /\ favorite' = cascade_user(cascade_recipe(favorite, gone), users)
    /\ shopping_cart' = cascade_user(cascade_recipe(shopping_cart, gone), users)
    /\ subscriptions' = cascade_subscriptions(subscriptions, users)
    /\ ingredient_recipe' = {l \in ingredient_recipe : l.recipe \notin gone}
    /\ tag_recipe' = {t \in tag_recipe : t.recipe \notin gone}
    /\ recipe_short_links' = {l \in recipe_short_links : l.recipe \notin gone}
    /\ recipe_rows' = [pk \in DOMAIN recipe_rows \ gone |-> recipe_rows[pk]]
    /\ user_rows' = user_rows \ users

\* DELETE recipes/<pk>/ (ModelViewSet.destroy): IsAuthenticatedOrReadOnly,
\* get_object with IsAuthorOrReadOnly, then instance.delete().
destroy(i, user, pk) ==
    /\ Arrives(i)
    /\ IF ~IsAuthenticated(user)
       THEN /\ Respond(i, "destroy", user, pk, "unauthorized")
            /\ Delete({}, {})
       ELSE IF pk \notin DOMAIN recipe_rows
       THEN /\ Respond(i, "destroy", user, pk, "Http404")
            /\ Delete({}, {})
       ELSE IF ~has_object_permission("DELETE", user, pk)
       THEN /\ Respond(i, "destroy", user, pk, "forbidden")
            /\ Delete({}, {})
       ELSE /\ Respond(i, "destroy", user, pk, "deleted")
            /\ Delete({}, {pk})

\* The delete of a User row (User.delete()), with the recipes the user wrote.
User_delete(i, id) ==
    /\ Arrives(i)
    /\ id \in user_rows
    /\ Respond(i, "User_delete", id, id, "deleted")
    /\ Delete({id}, RecipesOfAuthors({id}))

\* The users a request can be authenticated as, and the anonymous caller.
LiveCallers == user_rows \cup {Anonymous}

\* The payload of the updates of SpecDelete.
DeletePayloads ==
    {[tags |-> <<2>>,
      ingredients |-> <<[id |-> [json |-> "number", id |-> 1], amount |-> Whole(2)]>>,
      name |-> 2]}

\* Rows are added, short links made and recipes updated while recipes and
\* users are deleted.
NextDelete ==
    \E i \in Requests :
        \/ \E user \in LiveCallers, pk \in RecipePks : favorites(i, user, pk)
        \/ \E user \in LiveCallers, pk \in RecipePks : shopping_cart_post(i, user, pk)
        \/ get_or_create_step(i)
        \/ \E user \in LiveCallers, id \in UserPks : subscriptions_post(i, user, id)
        \/ subscriptions_save(i)
        \/ \E r \in RecipeIds : get_or_create_short_link(i, r)
        \/ short_link_create(i)
        \/ short_link_reget(i)
        \/ generate_short_link(i)
        \/ short_link_exists(i)
        \/ short_link_save(i)
        \/ \E user \in LiveCallers, pk \in RecipePks, data \in DeletePayloads :
               update(i, user, pk, data)
        \/ tags_set(i)
        \/ ingredients_clear(i)
        \/ _create_ingredients(i)
        \/ instance_save(i)
        \/ \E user \in LiveCallers, pk \in RecipePks : destroy(i, user, pk)
        \/ \E id \in UserIds : User_delete(i, id)

SpecDelete == InitRemove /\ [][NextDelete]_vars

\* C21: in every reachable state every Favorite, ShoppingCart,
\* UserSubscriptions, IngredientRecipe, TagRecipe and RecipeShortLinks row
\* references a recipe and users that exist, and every recipe has an author
\* that exists: the delete of a recipe or of a user takes every row that
\* references it, and the delete of a user takes the recipes the user wrote.
C21_RowsReferenceExistingRows ==
    /\ \A p \in DOMAIN favorite :
          favorite[p] > 0 => fk_user(p[1]) /\ fk_recipe(p[2])
    /\ \A p \in DOMAIN shopping_cart :
          shopping_cart[p] > 0 => fk_user(p[1]) /\ fk_recipe(p[2])
    /\ \A p \in DOMAIN subscriptions :
          subscriptions[p] > 0 => fk_user(p[1]) /\ fk_user(p[2])
    /\ \A l \in ingredient_recipe : fk_recipe(l.recipe)
    /\ \A t \in tag_recipe : fk_recipe(t.recipe)
    /\ \A l \in recipe_short_links : fk_recipe(l.recipe)
    /\ \A r \in DOMAIN recipe_rows : fk_user(recipe_rows[r].author)

\* A recipe and a user have been deleted.
C21_RecipeAndUserDeleted ==
    \E i \in Requests, j \in Requests :
        /\ req[i].op = "destroy"
        /\ req[i].status = "deleted"
        /\ req[j].op = "User_delete"
        /\ req[j].status = "deleted"
        /\ req[i].target \notin DOMAIN recipe_rows
        /\ req[j].target \notin user_rows

\* ------------------------------------------------------------------------
\* The shopping list of an empty cart, and the list as a read (SpecList).

EmptyCart(user) == \A r \in RecipeIds : shopping_cart[<<user, r>>] = 0

\* C22: the shopping list of an authenticated user whose cart has no rows is
\* built without error and has an empty recipe list and an empty ingredient
\* list.
C22_EmptyCartGivesEmptyList ==
    \A i \in Requests :
        (/\ req[i].op = "download_shopping_cart"
         /\ IsAuthenticated(req[i].user)
         /\ EmptyCart(req[i].user))
        => /\ req[i].status = "ok"
           /\ req[i].body.recipes = << >>
           /\ req[i].body.ingredients = << >>

\* A user with an empty cart has downloaded the list while another cart has rows.
C22_EmptyCartDownloaded ==
    \E i \in Requests, u \in UserIds :
        /\ Downloaded(i)
        /\ EmptyCart(req[i].user)
        /\ ~EmptyCart(u)

C24_OneLinePerIngredient ==
    \A l \in ingredient_recipe, m \in ingredient_recipe :
        (l.recipe = m.recipe /\ l.ingredient = m.ingredient) => l = m

\* C25: when an update with tags T and ingredient lines L returns successfully,
\* the tag links of the recipe are exactly T and its ingredient lines are
\* exactly L.
C25_UpdateReplacesWholesale ==
    [][\A i \in Requests :
          (/\ req[i].op = "update"
           /\ req[i].pc = "save"
           /\ req'[i].status = "ok")
          => /\ {t.tag : t \in {x \in tag_recipe' : x.recipe = req[i].target}}
                   = req[i].body.tags
             /\ {l \in ingredient_recipe' : l.recipe = req[i].target}
                   = {IngredientRecipe(req[i].target, item) :
                         item \in Range(req[i].body.ingredients)}]_vars

\* Request i is a recipe write that serializer.is_valid has accepted.
Accepted(i) == Writes(i) /\ req[i].body # NoBody

\* C26: a recipe create or update is accepted by the validation only with at
\* least one tag, at least one ingredient item and no ingredient twice; a
\* payload that is rejected writes nothing.
C26_InvalidPayloadIsRejected ==
    \A i \in Requests :
        Accepted(i)
        => /\ req[i].body.tags # {}
           /\ req[i].body.ingredients # << >>
           /\ \A k \in DOMAIN req[i].body.ingredients,
                 m \in DOMAIN req[i].body.ingredients :
                 k < m => req[i].body.ingredients[k].ingredient
                              # req[i].body.ingredients[m].ingredient

\* ------------------------------------------------------------------------
\* The amounts of the ingredient lines (SpecAmounts).

\* MinValueValidator(1) of IngredientRecipe.amount
MIN_AMOUNT == 1

\* The largest value of a PositiveSmallIntegerField
MAX_AMOUNT == 32767

\* The amounts a payload can carry: 0, 1/2, 1, 1 1/2, ... up to MaxAmount + 1/2.
AmountInputs == [units : 0..MaxAmount, half : BOOLEAN]

\* Payloads with one tag and with ingredient items of any of these amounts.
AmountPayloads ==
    [tags : {<<1>>},
     ingredients : SeqsUpTo([id : {[json |-> "number", id |-> 1]},
                             amount : AmountInputs], MaxLines),
     name : {2}]

NextAmounts ==
    \E i \in Requests :
        \/ \E user \in Callers, data \in AmountPayloads : create(i, user, data)
        \/ Recipe_objects_create(i)
        \/ \E user \in Callers, pk \in RecipePks, data \in AmountPayloads :
               update(i, user, pk, data)
        \/ tags_set(i)
        \/ ingredients_clear(i)
        \/ _create_ingredients(i)
        \/ instance_save(i)

SpecAmounts == Init /\ [][NextAmounts]_vars

\* C27: every ingredient line written by a recipe create or update has an
\* integer amount between MIN_AMOUNT and MAX_AMOUNT, whatever amount the
\* validation of the request has accepted.
C27_AmountsWithinBounds ==
    \A l \in ingredient_recipe :
        /\ l.amount \in Int
        /\ MIN_AMOUNT <= l.amount
        /\ l.amount <= MAX_AMOUNT

\* ------------------------------------------------------------------------
\* The amounts of a serialized recipe (SpecSerialize).

\* Any ingredient lines, one per ingredient of a recipe, and no cart rows.
InitSerialize ==
    /\ favorite = EmptyTable(UserIds, RecipeIds)
    /\ shopping_cart = EmptyTable(UserIds, RecipeIds)
    /\ subscriptions = EmptyTable(UserIds, UserIds)
    /\ ingredient_recipe \in AllLines(1)
    /\ RecipesAsLoaded
    /\ req = [i \in Requests |-> NewRequest]

NextSerialize ==
    \E i \in Requests, pk \in RecipePks : retrieve(i, Anonymous, pk)

SpecSerialize == InitSerialize /\ [][NextSerialize]_vars

NextAuthor ==
    \E i \in Requests :
        \/ \E user \in Callers, pk \in RecipePks, data \in DeletePayloads :
               update(i, user, pk, data)
        \/ tags_set(i)
        \/ ingredients_clear(i)
        \/ _create_ingredients(i)
        \/ instance_save(i)
        \/ \E user \in Callers, pk \in RecipePks : destroy(i, user, pk)
        \/ \E user \in Callers, pk \in RecipePks : retrieve(i, user, pk)

SpecAuthor == Init /\ [][NextAuthor]_vars

\* C29: a step of an update (PATCH) or delete request of a caller who is not
\* the author of recipe r, anonymous callers included, leaves the row, the tag
\* links and the ingredient lines of r as they are; and every caller who reads
\* a recipe that exists is given it.
C29_OnlyAuthorWrites ==
    [][\A i \in Requests :
          /\ \A r \in DOMAIN recipe_rows :
                (/\ req'[i] # req[i]
                 /\ req'[i].op \in {"update", "destroy"}
                 /\ req'[i].user # recipe_rows[r].author)
                => /\ r \in DOMAIN recipe_rows'
                   /\ recipe_rows'[r] = recipe_rows[r]
                   /\ {t \in tag_recipe' : t.recipe = r} = {t \in tag_recipe : t.recipe = r}
                   /\ {l \in ingredient_recipe' : l.recipe = r} = LinesOf(r)
          /\ (/\ req[i].pc = "new"
              /\ req'[i].op = "retrieve"
              /\ req'[i].target \in DOMAIN recipe_rows)
             => req'[i].status = "ok"]_vars

\* A user who is not the author has asked to update a recipe and an anonymous
\* caller to delete it; both were refused and the recipe is as loaded.
C29_StrangersRefused ==
    \E i \in Requests, j \in Requests :
        /\ req[i].op = "update"
        /\ IsAuthenticated(req[i].user)
        /\ req[i].status = "forbidden"
        /\ req[j].op = "destroy"
        /\ ~IsAuthenticated(req[j].user)
        /\ req[j].status = "unauthorized"
        /\ req[j].target = req[i].target
        /\ recipe_rows = LoadedRecipes
        /\ tag_recipe = LoadedTags
        /\ ingredient_recipe = OneLineEach

\* ------------------------------------------------------------------------
\* The recipe list filters is_favorited and is_in_shopping_cart (SpecFilter).

\* field_name of the two BooleanFilters of RecipeFilter
FilterNames == {"favorited_by_users", "shopping_carts_with_recipe"}

\* The relation table the field name leads to.
RelatedRows(name) ==
    IF name = "favorited_by_users" THEN favorite ELSE shopping_cart

\* A filter on the rows of any user.
filter_by_any_user(user, name, value) ==
    [r \in DOMAIN recipe_rows |->
        IF \E u \in UserIds : HasRow(RelatedRows(name), u, r) THEN 1 ELSE 0]

\* RecipeFilter.filter_by_user_related_field over the queryset of get_queryset
\* (every recipe once): how many times each recipe is in the result.
\* queryset.filter(<name>__user=user) is a join with the rows of the relation,
\* which has a recipe once per row of (user, recipe).
filter_by_user_related_field(user, name, value) ==
    IF ~IsAuthenticated(user)
    THEN [r \in DOMAIN recipe_rows |-> 0]
    ELSE IF value
    THEN [r \in DOMAIN recipe_rows |->
             IF HasRow(RelatedRows(name), user, r)
             THEN RelatedRows(name)[<<user, r>>] ELSE 0]
    ELSE [r \in DOMAIN recipe_rows |-> 1]

\* GET recipes/?is_favorited=<value> or ?is_in_shopping_cart=<value>
\* (ModelViewSet.list with filterset_class = RecipeFilter)
list(i, user, name, value) ==
    /\ Arrives(i)
    /\ req' = [req EXCEPT ![i] =
                  [op |-> "list", user |-> user, target |-> 0,
                   pc |-> "done", status |-> "ok",
                   body |-> [name |-> name, value |-> value,
                             results |-> filter_by_user_related_field(user, name, value)]]]
    /\ UNCHANGED <<user_rows, favorite, shopping_cart, subscriptions, ingredient_recipe,
                   recipe_rows, tag_recipe, recipe_short_links>>

\* Recipes are listed while favorites and cart rows are added and removed.
NextFilter ==
    \E i \in Requests :
        \/ \E user \in Callers, pk \in RecipePks : favorites(i, user, pk)
        \/ \E user \in Callers, pk \in RecipePks : shopping_cart_post(i, user, pk)
        \/ get_or_create_step(i)
        \/ \E user \in Callers, pk \in RecipePks : delete_favorite(i, user, pk)
        \/ \E user \in Callers, pk \in RecipePks :
               delete_from_shopping_cart(i, user, pk)
        \/ \E user \in Callers, name \in FilterNames, value \in BOOLEAN :
               list(i, user, name, value)

SpecFilter == InitRemove /\ [][NextFilter]_vars

\* C30: a recipe list filtered by is_favorited or is_in_shopping_cart has, for
\* an authenticated viewer and the value true, exactly the recipes with a row
\* of the viewer in the relation, each once; for the value false every recipe;
\* for an anonymous viewer no recipe, whatever the value.
C30_FilterSelectsViewersRows ==
    [][\A i \in Requests :
          (req[i].pc = "new" /\ req'[i].op = "list")
          => LET viewer == req'[i].user
                 body == req'[i].body
             IN \A r \in DOMAIN recipe_rows :
                   body.results[r] =
                       IF ~IsAuthenticated(viewer) THEN 0
                       ELSE IF ~body.value THEN 1
                       ELSE IF RelatedRows(body.name)[<<viewer, r>>] > 0 THEN 1
                       ELSE 0]_vars

\* An authenticated viewer has listed with the value true and was given one
\* recipe and not another, of which another user has a row.
C30_ListedOwnRows ==
    \E i \in Requests, r \in RecipeIds, other \in RecipeIds, u \in UserIds :
        /\ req[i].op = "list"
        /\ IsAuthenticated(req[i].user)
        /\ req[i].body.value
        /\ req[i].body.results[r] = 1
        /\ req[i].body.results[other] = 0
        /\ u # req[i].user
        /\ RelatedRows(req[i].body.name)[<<u, other>>] > 0


====
